---- MODULE Spec2Model ----
(***************************************************************************)
(* Model of foranipy3.py: a Streamlit script that loads heart.csv through  *)
(* a process-wide cache (st.cache_data) and is re-executed top to bottom   *)
(* on every UI event.  One action is one execution of the script; the      *)
(* stages it completed, the exception that stopped it and what it          *)
(* displayed are recorded in the state.                                    *)
(***************************************************************************)
EXTENDS Integers, Sequences, FiniteSets, TLC

VARIABLES
    file,           \* what is on disk at "heart.csv"
    cache,          \* st.cache_data entry of load_data()
    reads,          \* number of times pd.read_csv opened the file
    df,             \* the script's df of the last run (line 20)
    show_raw_data,  \* sidebar checkbox state (line 24)
    age_range,      \* slider state <<lo, hi>> (line 109)
    gender,         \* selectbox state (line 110)
    stages,         \* stages the last run completed, in order
    error,          \* uncaught exception that stopped the last run
    metrics,        \* st.metric values displayed by the last run
    summary,        \* the grouped summary displayed by the last run
    filtered_df,    \* the script's filtered_df of the last run
    shown,          \* what lines 119-120 displayed in the last run
    seen            \* an earlier display of the filter section, kept for comparison

vars == <<file, cache, reads, df, show_raw_data, age_range, gender, stages,
          error, metrics, summary, filtered_df, shown, seen>>

----------------------------------------------------------------------------
(* Bounds *)

MaxRows == 3
MaxReads == 2
MaxOtherRows == 1

(* Program constants *)

DefaultLo == 30
DefaultHi == 70

----------------------------------------------------------------------------
(* Data *)

\* The records a heart.csv may hold, reduced to the columns the script's
\* own computations read (age, sex, target).
Patients ==
    { [age |-> 29, sex |-> 1, target |-> 1],
      [age |-> 45, sex |-> 0, target |-> 1],
      [age |-> 45, sex |-> 1, target |-> 0],
      [age |-> 71, sex |-> 0, target |-> 0] }

\* Values the user drags the slider handles to.
AgePoints == {29, DefaultLo, 45, DefaultHi, 71}

GenderOptions == <<"Both", "Female", "Male">>

RecordLists(n) == UNION { [1..k -> Patients] : k \in 0..n }

NoFrame == [columns |-> "none", rows |-> <<>>]
NoCache == [full |-> FALSE, df |-> NoFrame]
NoShown == [count |-> -1, rows |-> <<>>]
NoSeen == [taken |-> FALSE, away |-> FALSE, age_range |-> <<0, 0>>,
           gender |-> "Both", shown |-> NoShown]

CsvFile(header, records) == [kind |-> "csv", header |-> header, records |-> records]
MissingFile == [kind |-> "missing", header |-> "none", records |-> <<>>]
EmptyFile == [kind |-> "empty", header |-> "none", records |-> <<>>]

\* Every content of heart.csv within the bounds: absent, zero bytes, a CSV
\* with the heart columns, a CSV with other columns.
Files ==
    {MissingFile, EmptyFile}
      \cup { CsvFile("heart", r) : r \in RecordLists(MaxRows) }
      \cup { CsvFile("other", r) : r \in RecordLists(MaxOtherRows) }

\* The contents the file is replaced with while the process runs.
ReplacementFiles ==
    { MissingFile, EmptyFile,
      CsvFile("other", <<>>),
      CsvFile("heart", <<>>),
      CsvFile("heart", <<[age |-> 29, sex |-> 1, target |-> 1]>>),
      CsvFile("heart", <<[age |-> 45, sex |-> 0, target |-> 1],
                         [age |-> 45, sex |-> 1, target |-> 0]>>),
      CsvFile("heart", <<[age |-> 29, sex |-> 1, target |-> 1],
                         [age |-> 45, sex |-> 0, target |-> 1],
                         [age |-> 71, sex |-> 0, target |-> 0]>>) }

----------------------------------------------------------------------------
(* Arithmetic helpers *)

Min2(a, b) == IF a <= b THEN a ELSE b
Max2(a, b) == IF a >= b THEN a ELSE b

\* a / b rounded to the nearest integer (b > 0, a >= 0).
RoundDiv(a, b) == (2 * a + b) \div (2 * b)

RECURSIVE SumSeq(_)
SumSeq(s) == IF s = <<>> THEN 0 ELSE Head(s) + SumSeq(Tail(s))

RECURSIVE MinSeq(_)
MinSeq(s) == IF Len(s) = 1 THEN s[1] ELSE Min2(s[1], MinSeq(Tail(s)))

RECURSIVE MaxSeq(_)
MaxSeq(s) == IF Len(s) = 1 THEN s[1] ELSE Max2(s[1], MaxSeq(Tail(s)))

----------------------------------------------------------------------------
(* pandas *)

\* pd.read_csv("heart.csv"): raises when the file is absent (nothing is
\* read) or has no columns to parse (the file was read); otherwise a frame
\* with a RangeIndex 0..n-1.
read_csv(f) ==
    IF f.kind = "missing"
    THEN [exc |-> "FileNotFoundError", read |-> 0, df |-> NoFrame]
    ELSE IF f.kind = "empty"
    THEN [exc |-> "EmptyDataError", read |-> 1, df |-> NoFrame]
    ELSE [exc |-> "none", read |-> 1,
          df |-> [columns |-> f.header,
                  rows |-> [i \in 1..Len(f.records) |->
                              [index |-> i - 1,
                               age |-> f.records[i].age,
                               sex |-> f.records[i].sex,
                               target |-> f.records[i].target]]]]

\* df[name] as a sequence of values.
Column(d, name) ==
    [i \in 1..Len(d.rows) |->
        IF name = "age" THEN d.rows[i].age
        ELSE IF name = "sex" THEN d.rows[i].sex
        ELSE d.rows[i].target]

\* series == v
eq(col, v) == [i \in 1..Len(col) |-> col[i] = v]

\* A between() that leaves the right end out.
between_right_open(col, left, right) ==
    [i \in 1..Len(col) |-> left <= col[i] /\ col[i] < right]

\* series.between(left, right), inclusive="both"
between(col, left, right) == [i \in 1..Len(col) |-> left <= col[i] /\ col[i] <= right]

\* mask & mask
mask_and(a, b) == [i \in 1..Len(a) |-> a[i] /\ b[i]]

RECURSIVE select_rows(_, _)
select_rows(rows, mask) ==
    IF rows = <<>> THEN <<>>
    ELSE IF Head(mask) THEN <<Head(rows)>> \o select_rows(Tail(rows), Tail(mask))
    ELSE select_rows(Tail(rows), Tail(mask))

\* df[mask]: the rows whose mask entry is True, index labels kept.
loc_mask(d, mask) == [columns |-> d.columns, rows |-> select_rows(d.rows, mask)]

----------------------------------------------------------------------------
(* The script, stage by stage *)

\* A load_data without the cache decorator: every call reads the file.
load_data_uncached(c, f) ==
    LET r == read_csv(f)
    IN  IF r.exc # "none"
        THEN [cache |-> c, reads |-> r.read, exc |-> r.exc, df |-> NoFrame]
        ELSE [cache |-> [full |-> TRUE, df |-> r.df], reads |-> r.read,
              exc |-> "none", df |-> r.df]

\* A load_data whose entry is replaced when the file on disk has changed.
load_data_refreshing(c, f) ==
    LET r == read_csv(f)
    IN  IF c.full /\ (r.exc # "none" \/ r.df = c.df)
        THEN [cache |-> c, reads |-> 0, exc |-> "none", df |-> c.df]
        ELSE IF r.exc # "none"
        THEN [cache |-> c, reads |-> r.read, exc |-> r.exc, df |-> NoFrame]
        ELSE [cache |-> [full |-> TRUE, df |-> r.df], reads |-> IF c.full THEN 0 ELSE r.read,
              exc |-> "none", df |-> r.df]

\* @st.cache_data load_data(): a populated cache entry is returned without
\* running the body; otherwise the body reads the file, and the entry is
\* stored only when the body returns.
load_data(c, f) ==
    IF c.full
    THEN [cache |-> c, reads |-> 0, exc |-> "none", df |-> c.df]
    ELSE LET r == read_csv(f)
         IN  IF r.exc # "none"
             THEN [cache |-> c, reads |-> r.read, exc |-> r.exc, df |-> NoFrame]
             ELSE [cache |-> [full |-> TRUE, df |-> r.df], reads |-> r.read,
                   exc |-> "none", df |-> r.df]

Metric(label, nan, value) == [label |-> label, nan |-> nan, value |-> value]

\* len(df[df['sex'] == 1]) / len(df[df['sex'] == 0]), as the hundredths that
\* f"{gender_ratio:.2f}" prints.
gender_ratio(d) ==
    LET males == Len(select_rows(d.rows, eq(Column(d, "sex"), 1)))
        females == Len(select_rows(d.rows, eq(Column(d, "sex"), 0)))
    IN  IF females = 0
        THEN [exc |-> "ZeroDivisionError", value |-> 0]
        ELSE [exc |-> "none", value |-> RoundDiv(100 * males, females)]

\* The four st.metric calls.  Values are scaled integers: prevalence in
\* hundredths of a percent, average age in tenths of a year, the ratio in
\* hundredths; the mean of an empty column is NaN.
metrics_panel(d) ==
    LET n == Len(d.rows)
        total == Metric("Total Patients", FALSE, n)
    IN  IF d.columns # "heart"
        THEN [exc |-> "KeyError", shown |-> <<total>>]
        ELSE
          LET prevalence ==
                  IF n = 0 THEN Metric("Heart Disease Prevalence", TRUE, 0)
                  ELSE Metric("Heart Disease Prevalence", FALSE,
                              RoundDiv(10000 * SumSeq(Column(d, "target")), n))
              average ==
                  IF n = 0 THEN Metric("Average Age", TRUE, 0)
                  ELSE Metric("Average Age", FALSE,
                              RoundDiv(10 * SumSeq(Column(d, "age")), n))
              ratio == gender_ratio(d)
          IN  IF ratio.exc # "none"
              THEN [exc |-> ratio.exc, shown |-> <<total, prevalence, average>>]
              ELSE [exc |-> "none",
                    shown |-> <<total, prevalence, average,
                                Metric("Male to Female Ratio", FALSE, ratio.value)>>]

\* A groupby that keeps the groups in order of first appearance (sort=False).
groupby_target_unsorted(d) ==
    LET group(k) == [key |-> k, rows |-> select_rows(d.rows, eq(Column(d, "target"), k))]
        present(k) == \E i \in 1..Len(d.rows) : d.rows[i].target = k
        first == IF d.rows = <<>> THEN 0 ELSE d.rows[1].target
    IN  (IF present(first) THEN <<group(first)>> ELSE <<>>)
          \o (IF present(1 - first) THEN <<group(1 - first)>> ELSE <<>>)

\* df.groupby("target"): one group per value that occurs, keys ascending.
groupby_target(d) ==
    LET group(k) == [key |-> k, rows |-> select_rows(d.rows, eq(Column(d, "target"), k))]
        present(k) == \E i \in 1..Len(d.rows) : d.rows[i].target = k
    IN  (IF present(0) THEN <<group(0)>> ELSE <<>>)
          \o (IF present(1) THEN <<group(1)>> ELSE <<>>)

\* .agg({...}).round(2), reduced to the age column: mean in hundredths,
\* min and max.
agg_age(g) ==
    LET ages == [i \in 1..Len(g.rows) |-> g.rows[i].age]
    IN  [age_mean |-> RoundDiv(100 * SumSeq(ages), Len(ages)),
         age_min |-> MinSeq(ages),
         age_max |-> MaxSeq(ages)]

SummaryLabels == <<"No Heart Disease", "Heart Disease">>

\* Lines 93-103: summary.index = [...] assigns the two labels by position
\* and raises when the frame does not have exactly two rows.
summary_table(d) ==
    LET groups == groupby_target(d)
    IN  IF Len(groups) # Len(SummaryLabels)
        THEN [exc |-> "ValueError", rows |-> <<>>]
        ELSE [exc |-> "none",
              rows |-> [i \in 1..Len(groups) |->
                          [label |-> SummaryLabels[i], stats |-> agg_age(groups[i])]]]

\* st.slider(min_value, max_value, value): the widget's bounds are widened
\* to contain `value`; bounds as <<lowest, highest>>.
slider_bounds(d) ==
    LET min_value == MinSeq(Column(d, "age"))
        max_value == MaxSeq(Column(d, "age"))
    IN  <<Min2(DefaultLo, min_value), Max2(DefaultHi, max_value)>>

\* The slider returns the session's value, or `value` when it has none.
slider(state) == IF state = <<>> THEN <<DefaultLo, DefaultHi>> ELSE state

\* The selectbox returns the session's choice, or options[index] (index=0).
selectbox(state) == IF state = "" THEN GenderOptions[1] ELSE state

\* A filter that narrows what the previous run left.
filter_input_previous(d, previous) ==
    IF previous.columns = "heart" THEN previous ELSE d

\* The frame lines 113-117 select from: always the loaded df, whatever an
\* earlier run left.
filter_input(d, previous) == d

\* The Female branch testing sex == 1.
filtered_rows_female_as_male(d, r, g) ==
    IF g = "Both"
    THEN loc_mask(d, between(Column(d, "age"), r[1], r[2]))
    ELSE loc_mask(d, mask_and(between(Column(d, "age"), r[1], r[2]),
                              eq(Column(d, "sex"), 1)))

\* The Male branch without its sex test.
filtered_rows_male_unfiltered(d, r, g) ==
    IF g = "Female"
    THEN loc_mask(d, mask_and(between(Column(d, "age"), r[1], r[2]),
                              eq(Column(d, "sex"), 0)))
    ELSE loc_mask(d, between(Column(d, "age"), r[1], r[2]))

\* Lines 112-117.
filtered_rows(d, r, g) ==
    IF g = "Female"
    THEN loc_mask(d, mask_and(between(Column(d, "age"), r[1], r[2]),
                              eq(Column(d, "sex"), 0)))
    ELSE IF g = "Male"
    THEN loc_mask(d, mask_and(between(Column(d, "age"), r[1], r[2]),
                              eq(Column(d, "sex"), 1)))
    ELSE loc_mask(d, between(Column(d, "age"), r[1], r[2]))

\* Lines 119-120.
display(fd) == [count |-> Len(fd.rows), rows |-> fd.rows]

Outcome(st, e, m, s, r, g, fd, sh) ==
    [stages |-> st, error |-> e, metrics |-> m, summary |-> s,
     age_range |-> r, gender |-> g, filtered_df |-> fd, shown |-> sh]

\* One execution of the script from line 20 on, given what load_data did.
\* An uncaught exception ends the run; what was displayed before it stays.
script(ld, sr, r, g, previous) ==
    IF ld.exc # "none"
    THEN Outcome(<<>>, ld.exc, <<>>, <<>>, r, g, NoFrame, NoShown)
    ELSE
      LET d == ld.df
          s0 == <<"load_data", "sidebar">> \o (IF sr THEN <<"raw_data">> ELSE <<>>)
          mp == metrics_panel(d)
      IN  IF mp.exc # "none"
          THEN Outcome(s0, mp.exc, mp.shown, <<>>, r, g, NoFrame, NoShown)
          ELSE
            LET s1 == s0 \o <<"metrics", "tab1", "tab2">>
                sm == summary_table(d)
            IN  IF sm.exc # "none"
                THEN Outcome(s1, sm.exc, mp.shown, <<>>, r, g, NoFrame, NoShown)
                ELSE
                  LET r1 == slider(r)
                      g1 == selectbox(g)
                      fd == filtered_rows(filter_input(d, previous), r1, g1)
                  IN  Outcome(s1 \o <<"summary", "filter", "footer">>, "none",
                              mp.shown, sm.rows, r1, g1, fd, display(fd))

----------------------------------------------------------------------------
(* State machine *)

Blank ==
    /\ cache = NoCache
    /\ reads = 0
    /\ df = NoFrame
    /\ show_raw_data = FALSE
    /\ age_range = <<>>
    /\ gender = ""
    /\ stages = <<>>
    /\ error = "none"
    /\ metrics = <<>>
    /\ summary = <<>>
    /\ filtered_df = NoFrame
    /\ shown = NoShown
    /\ seen = NoSeen

\* The process has started; no session has run the script yet.
Init == file \in Files /\ Blank

InitEnv == file \in ReplacementFiles /\ Blank

FilterShown == Len(stages) > 0 /\ stages[Len(stages)] = "footer"

\* The script has run at least once.
Started == stages # <<>> \/ error # "none"

\* A run of the script with the widget states sr, r, g.
Run(sr, r, g) ==
    /\ cache.full \/ reads < MaxReads
    /\ \E ld \in {load_data(cache, file)} :
         \E out \in {script(ld, sr, r, g, filtered_df)} :
           /\ cache' = ld.cache
           /\ reads' = reads + ld.reads
           /\ df' = ld.df
           /\ show_raw_data' = sr
           /\ age_range' = out.age_range
           /\ gender' = out.gender
           /\ stages' = out.stages
           /\ error' = out.error
           /\ metrics' = out.metrics
           /\ summary' = out.summary
           /\ filtered_df' = out.filtered_df
           /\ shown' = out.shown
           /\ seen' = IF seen.taken /\ (out.age_range # seen.age_range \/ out.gender # seen.gender)
                      THEN [seen EXCEPT !.away = TRUE]
                      ELSE seen
    /\ UNCHANGED file

\* The page is opened, or rerun with the widgets as they are.
Rerun == Run(show_raw_data, age_range, gender)

\* The sidebar checkbox is clicked.
ToggleShowRawData ==
    /\ Len(stages) > 0
    /\ Run(~show_raw_data, age_range, gender)

\* One slider handle is dragged to another value.
ChangeAgeRange ==
    /\ FilterShown
    /\ \E v \in AgePoints, handle \in 1..2 :
          /\ v # age_range[handle]
          /\ slider_bounds(df)[1] <= v /\ v <= slider_bounds(df)[2]
          /\ IF handle = 1 THEN v <= age_range[2] ELSE age_range[1] <= v
          /\ Run(show_raw_data, [age_range EXCEPT ![handle] = v], gender)

\* Another gender is selected.
ChangeGender ==
    /\ FilterShown
    /\ \E i \in 1..Len(GenderOptions) :
          /\ GenderOptions[i] # gender
          /\ Run(show_raw_data, age_range, GenderOptions[i])

\* heart.csv is replaced on disk while the process runs.
FileChange ==
    /\ \E f \in ReplacementFiles : f # file /\ file' = f
    /\ UNCHANGED <<cache, reads, df, show_raw_data, age_range, gender, stages,
                   error, metrics, summary, filtered_df, shown, seen>>

\* The user notes what the filter section shows, to compare a later
\* display with it.
Observe ==
    /\ FilterShown
    /\ ~seen.taken
    /\ seen' = [taken |-> TRUE, away |-> FALSE, age_range |-> age_range,
                gender |-> gender, shown |-> shown]
    /\ UNCHANGED <<file, cache, reads, df, show_raw_data, age_range, gender,
                   stages, error, metrics, summary, filtered_df, shown>>

Next == Rerun \/ ToggleShowRawData \/ ChangeAgeRange \/ ChangeGender

Spec == Init /\ [][Next]_vars

NextEnv == Rerun \/ ToggleShowRawData \/ ChangeAgeRange \/ ChangeGender \/ FileChange

SpecEnv == InitEnv /\ [][NextEnv]_vars

NextObs == Rerun \/ ToggleShowRawData \/ ChangeAgeRange \/ ChangeGender \/ Observe

SpecObs == InitEnv /\ [][NextObs]_vars

----------------------------------------------------------------------------
(* Properties *)

Ran(stage) == \E i \in 1..Len(stages) : stages[i] = stage

Ages(d) == { d.rows[i].age : i \in 1..Len(d.rows) }

LowestAge(d) == CHOOSE a \in Ages(d) : \A b \in Ages(d) : a <= b

HighestAge(d) == CHOOSE a \in Ages(d) : \A b \in Ages(d) : a >= b

\* The positions of the rows of d that the filter's predicate admits.
Admitted(d, r, g) ==
    { i \in 1..Len(d.rows) :
        /\ r[1] <= d.rows[i].age
        /\ d.rows[i].age <= r[2]
        /\ (g = "Female" => d.rows[i].sex = 0)
        /\ (g = "Male" => d.rows[i].sex = 1) }

\* v holds exactly the rows of d at the positions in sel, in d's order.
ExactlyRows(v, d, sel) ==
    /\ Len(v) = Cardinality(sel)
    /\ \A k \in 1..Len(v) : \E i \in sel : v[k] = d.rows[i]
    /\ \A i \in sel : \E k \in 1..Len(v) : v[k] = d.rows[i]
    /\ \A k \in 1..Len(v), l \in 1..Len(v) : k < l => v[k].index < v[l].index

\* C1: whenever a run displays the filter section, filtered_df holds exactly
\* the rows of the table with lo <= age <= hi (both inclusive) whose sex
\* matches the selection (Female: 0, Male: 1, Both: any), and the displayed
\* count and rows are those of that set.
C1_FilterExact ==
    FilterShown =>
        LET sel == Admitted(df, age_range, gender)
        IN  /\ ExactlyRows(filtered_df.rows, df, sel)
            /\ shown.count = Cardinality(sel)
            /\ shown.rows = filtered_df.rows

\* The spec's example: ages [29, 45, 71], Both, (30, 70) gives count 1.
C1_Witness ==
    /\ FilterShown
    /\ [i \in 1..Len(df.rows) |-> df.rows[i].age] = <<29, 45, 71>>
    /\ gender = "Both"
    /\ age_range = <<DefaultLo, DefaultHi>>
    /\ shown.count = 1
    /\ shown.rows[1].age = 45

\* C2 (as claimed): with no row of sex = 0 in the loaded table, the run raises
\* no ZeroDivisionError and goes on past the metrics panel.
C2_NoFemaleNoCrash ==
    (Ran("load_data") /\ df.columns = "heart" /\ Len(df.rows) > 0
        /\ \A i \in 1..Len(df.rows) : df.rows[i].sex # 0)
    => (error # "ZeroDivisionError" /\ Ran("metrics"))

\* C3 (as claimed): over any sequence of runs the file is read at most once.
\* (reads counts the runs in which read_csv read an existing file.)
C3_ReadAtMostOnce == reads <= 1

\* C3 (amended): once a call of load_data has returned a table, no later call
\* reads the file and every later run's df is the cached table; a run that
\* populates the cache reads the file exactly once.
C3_ReadOnceLoaded ==
    [][ /\ cache.full => (reads' = reads /\ df' = cache.df)
        /\ (~cache.full /\ cache'.full) => (reads' = reads + 1 /\ df' = cache'.df)
      ]_vars

\* The file was deleted after the load and a later run (the checkbox was
\* ticked) still has the table, with one read in all.
C3_Witness ==
    /\ cache.full
    /\ reads = 1
    /\ show_raw_data
    /\ file = MissingFile
    /\ df = cache.df
    /\ Len(df.rows) > 0

\* C4 (as claimed): the value the slider is first built with lies within the
\* data's minimum and maximum age, lower <= upper.
C4_InitialValueClamped ==
    [][ (age_range = <<>> /\ age_range' # <<>>) =>
           /\ LowestAge(df') <= age_range'[1]
           /\ age_range'[1] <= age_range'[2]
           /\ age_range'[2] <= HighestAge(df')
      ]_vars

\* C5: once the table is cached, no run and no change of the file on disk
\* alters it: the cache entry keeps the rows and values it was loaded with.
C5_TableImmutable == [][cache.full => cache' = cache]_vars

\* The filter section ran with non-default inputs on a cached table that the
\* file on disk no longer equals.
C5_Witness ==
    /\ cache.full
    /\ FilterShown
    /\ show_raw_data
    /\ gender = "Female"
    /\ age_range # <<DefaultLo, DefaultHi>>
    /\ file.kind = "csv" /\ file.header = "heart"
    /\ read_csv(file).df # cache.df
    /\ Len(cache.df.rows) = 3

\* C6 (as claimed): with the file missing or malformed, a run fails inside
\* load_data: no stage after it runs and nothing is cached.
C6_LoadFailureFatal ==
    (Started /\ (file.kind # "csv" \/ file.header # "heart"))
    => (error # "none" /\ stages = <<>> /\ ~cache.full)

\* C7: with the range set to (lowest age, highest age) of a non-empty table
\* and Both selected, the filtered view is the whole table and the count is
\* the number of rows.
C7_IdentityBoundary ==
    (FilterShown /\ gender = "Both"
        /\ age_range = <<LowestAge(df), HighestAge(df)>>)
    => (filtered_df.rows = df.rows /\ shown.count = Len(df.rows)
          /\ shown.rows = df.rows)

C7_Witness ==
    /\ FilterShown
    /\ gender = "Both"
    /\ age_range = <<LowestAge(df), HighestAge(df)>>
    /\ LowestAge(df) < DefaultLo
    /\ HighestAge(df) > DefaultHi
    /\ shown.count = 3

\* C8: a display of the filter section with the same age range and gender
\* as an earlier display of it shows the same rows and the same count,
\* whatever was selected in between.
C8_SameParamsSameView ==
    (seen.taken /\ FilterShown
        /\ age_range = seen.age_range /\ gender = seen.gender)
    => shown = seen.shown

\* The parameters were changed away from the noted ones and back again.
C8_Witness ==
    /\ seen.taken
    /\ seen.away
    /\ FilterShown
    /\ age_range = seen.age_range
    /\ gender = seen.gender
    /\ shown.count > 0
    /\ shown.count < Len(df.rows)

\* C9: when both disease-status groups occur and the metrics panel got
\* through, the summary is displayed with exactly two rows: the first
\* labelled "No Heart Disease" holds the statistics of the target = 0 rows,
\* the second labelled "Heart Disease" those of the target = 1 rows; the
\* two groups' row counts add up to the number of rows.
C9_SummaryGroups ==
    LET members(k) == { i \in 1..Len(df.rows) : df.rows[i].target = k }
        ages(k) == { df.rows[i].age : i \in members(k) }
        both == members(0) # {} /\ members(1) # {}
        statsOf(row, k) ==
            /\ \A a \in ages(k) : row.stats.age_min <= a /\ a <= row.stats.age_max
            /\ row.stats.age_min \in ages(k)
            /\ row.stats.age_max \in ages(k)
    IN  /\ (Ran("metrics") /\ both) => Ran("summary")
        /\ Ran("summary") =>
             /\ both
             /\ Len(summary) = 2
             /\ summary[1].label = "No Heart Disease"
             /\ summary[2].label = "Heart Disease"
             /\ statsOf(summary[1], 0)
             /\ statsOf(summary[2], 1)
             /\ Len(groupby_target(df)) = 2
             /\ Len(groupby_target(df)[1].rows) = Cardinality(members(0))
             /\ Len(groupby_target(df)[2].rows) = Cardinality(members(1))
             /\ Cardinality(members(0)) + Cardinality(members(1)) = Len(df.rows)

\* The first row of the table has the disease, and the two groups differ in
\* size and in ages.
C9_Witness ==
    /\ Ran("summary")
    /\ Len(df.rows) = 3
    /\ df.rows[1].target = 1
    /\ summary[1].stats.age_max = 71
    /\ summary[2].stats.age_min = 29
    /\ summary[2].stats.age_max = 45

\* C10: for the loaded table and the selected age range, the Female and the
\* Male filtered views share no row, together hold exactly the rows of the
\* Both view, and their counts add up to its count.
C10_GenderPartition ==
    FilterShown =>
        LET view(g) == IF g = gender THEN filtered_df.rows
                       ELSE filtered_rows(df, age_range, g).rows
            set(g) == { view(g)[k] : k \in 1..Len(view(g)) }
        IN  /\ set("Female") \cap set("Male") = {}
            /\ set("Female") \cup set("Male") = set("Both")
            /\ Len(view("Female")) + Len(view("Male")) = Len(view("Both"))

C10_Witness ==
    /\ FilterShown
    /\ gender = "Male"
    /\ shown.count = 1
    /\ Len(filtered_rows(df, age_range, "Female").rows) = 1
    /\ Len(filtered_rows(df, age_range, "Both").rows) = 2
    /\ Len(df.rows) = 3

====
